---- MODULE Spec2Model ----
(***************************************************************************)
(* The screenshot-to-solution processing pipeline of the Electron main     *)
(* process: ProcessingHelper (processScreenshots, processExtraScreenshots, *)
(* their helpers and cancelOngoingRequests), the AnthropicClient gateway   *)
(* and the credits / reset IPC handlers.                                   *)
(*                                                                         *)
(* Every invocation of a pipeline entry point is a run.  A run advances    *)
(* from one await of the code to the next in one step; between two steps   *)
(* of a run any other handler may execute (single-threaded cooperative     *)
(* scheduling).  events[r] is the sequence of webContents.send calls made  *)
(* by run r; lastCmd is what the command handled in the latest step sent.  *)
(* The record of a run that has returned is kept for one step: the state   *)
(* right after a return shows the whole run, and the step after it frees   *)
(* the slot.                                                               *)
(***************************************************************************)
EXTENDS Integers, Sequences, FiniteSets, TLC

\* ---- bounds of the model ----
MaxRuns == 2        \* pipeline invocations that can be in progress at once
MaxRepeats == 1     \* repeats of one gateway call by one run that are counted
MaxCredits == 2     \* largest value of window.__CREDITS__
QueueCap == 1       \* capacity N of each screenshot queue

\* A run is named by the slot it occupies while it is in progress; a slot is
\* free again once its run has returned.
Runs == 1..MaxRuns

\* ---- values ----
NullController == 0     \* AbortController | null = null
\* An AbortController is named by the run that created it; Stale names the
\* controller of a run that has returned.
Stale == MaxRuns + 1

NullInfo == [present |-> FALSE, solution |-> "", debug_solution |-> ""]

\* PROCESSING_EVENTS and the two ipc channel names used with send()
NO_SCREENSHOTS == "processing-no-screenshots"
OUT_OF_CREDITS == "out-of-credits"
INITIAL_START == "initial-start"
PROBLEM_EXTRACTED == "problem-extracted"
SOLUTION_SUCCESS == "solution-success"
INITIAL_SOLUTION_ERROR == "solution-error"
DEBUG_START == "debug-start"
DEBUG_SUCCESS == "debug-success"
DEBUG_ERROR == "debug-error"
CREDITS_UPDATED == "credits-updated"
RESET_VIEW == "reset-view"

Ev(name, msg, n) == [name |-> name, msg |-> msg, n |-> n]
E(name) == Ev(name, "", 0)

VARIABLES
  view,          \* deps.getView()
  problemInfo,   \* deps.getProblemInfo()
  hasDebugged,   \* deps.setHasDebugged
  credits,       \* window.__CREDITS__
  isInitialized, \* window.__IS_INITIALIZED__
  processEnv,    \* process.env: ANTHROPIC_API_KEY and anthropic_key
  apiKey,        \* AnthropicClient.apiKey
  lastCall,      \* a direct call of an AnthropicClient method, or a readiness poll
  solved,        \* a Solve run has received its solution (history)
  screenshotQueue,       \* screenshotHelper.getScreenshotQueue()
  extraScreenshotQueue,  \* screenshotHelper.getExtraScreenshotQueue()
  currentProcessingAbortController,
  currentExtraProcessingAbortController,
  runs,          \* the pipeline invocations: position and locals
  events,        \* events[r]: what run r sent to the renderer, in order
  lastCmd        \* latest non-pipeline command and the events it sent

vars == <<view, problemInfo, hasDebugged, credits, isInitialized,
          processEnv, apiKey, lastCall, solved,
          screenshotQueue, extraScreenshotQueue,
          currentProcessingAbortController,
          currentExtraProcessingAbortController, runs, events, lastCmd>>

shared == <<view, problemInfo, hasDebugged, credits, screenshotQueue,
            extraScreenshotQueue, currentProcessingAbortController,
            currentExtraProcessingAbortController>>

\* What no step of a pipeline run writes, but for `solved`
client == <<processEnv, apiKey, lastCall>>

env == <<isInitialized, client, solved>>

\* ---- AnthropicClient: the API key ----

\* A variable of process.env is unset, empty, or holds a key
Unset == "<unset>"
EnvValues == {Unset, "", "sk-ant-1", "sk-ant-2"}

NullKey == "<null>"

\* JavaScript truthiness of process.env[name]
Truthy(v) == v # Unset /\ v # ""

\* loadApiKey looking at anthropic_key first
LoadApiKeyLegacyFirst(e) ==
  IF Truthy(e.anthropic_key) THEN e.anthropic_key
  ELSE IF Truthy(e.ANTHROPIC_API_KEY) THEN e.ANTHROPIC_API_KEY
  ELSE NullKey

\* loadApiKey, called by the constructor: the value of this.apiKey
LoadApiKey(e) ==
  IF Truthy(e.ANTHROPIC_API_KEY) THEN e.ANTHROPIC_API_KEY
  ELSE IF Truthy(e.anthropic_key) THEN e.anthropic_key
  ELSE NullKey

\* isConfigured with its answer fixed
IsConfiguredAlways == TRUE

IsConfigured == apiKey # NullKey

NoCall == [op |-> "none"]

NoCmd == <<>>

\* The gateway calls of a run, by the position that waits for them
CallKinds == {"extract", "solve", "errextract", "debug"}

IdleRun == [kind |-> "none", pipe |-> "none", pc |-> "idle", hwin |-> FALSE,
            aborted |-> FALSE, imgs |-> <<>>, pinfo |-> NullInfo, cred |-> 0,
            retryCount |-> 0, nCalls |-> [c \in CallKinds |-> 0]]

Init ==
  /\ view = "queue"
  /\ problemInfo = NullInfo
  /\ hasDebugged = FALSE
  /\ credits \in 0..MaxCredits
  /\ isInitialized = FALSE
  /\ processEnv \in {[ANTHROPIC_API_KEY |-> k, anthropic_key |-> Unset] :
                        k \in {Unset, "sk-ant-1"}}
  /\ apiKey = LoadApiKey(processEnv)
  /\ lastCall = NoCall
  /\ solved = FALSE
  /\ screenshotQueue = <<>>
  /\ extraScreenshotQueue = <<>>
  /\ currentProcessingAbortController = NullController
  /\ currentExtraProcessingAbortController = NullController
  /\ runs = [r \in Runs |-> IdleRun]
  /\ events = [r \in Runs |-> <<>>]
  /\ lastCmd = NoCmd

\* ---- AnthropicClient (the gateway) ----

NoStatus == 0

\* An axios.post settled without data: the kind of failure, the HTTP status
\* and the response data of a failing response
Settled(type, status, body) ==
  [type |-> type, status |-> status, body |-> body, content |-> <<>>]

\* A response with data, as the pipelines see it
OkResponse == [type |-> "ok", status |-> 200, body |-> "", content |-> <<>>]

\* How an axios.post can settle: a response with data, a failing HTTP status,
\* a failure without response, or the rejection axios makes of a request
\* whose signal is (or becomes) aborted.
AxiosOutcomes(aborted) ==
  IF aborted
    THEN {Settled("cancel", NoStatus, "")}
    ELSE {OkResponse, Settled("http", 429, "rate_limit_error"),
          Settled("network", NoStatus, "")}

Outcomes == AxiosOutcomes(TRUE) \cup AxiosOutcomes(FALSE)

\* An Error value: isCancel is what axios.isCancel answers for it; status
\* and body are the status and the response data its message text includes.
Err(message) == [isCancel |-> FALSE, message |-> message,
                 status |-> NoStatus, body |-> ""]

\* generateResponse's catch: the error it throws for a settled failure.
GenerateResponseError(o) ==
  IF o.type = "cancel" THEN Err("Request was cancelled")
  ELSE IF o.type = "http"
    THEN IF o.status = 401 THEN Err("Invalid API key")
         ELSE IF o.status = 429 THEN Err("Rate limit exceeded")
         ELSE [Err("API error") EXCEPT !.status = o.status, !.body = o.body]
  ELSE Err("Network Error")

IsCancel(error) == error.isCancel

NOT_CONFIGURED == "Anthropic API key not configured. Please check your .zshrc file or environment variables."

\* What processImages can return for a response with data: the value
\* JSON.parse gives.  It is null for the text "null"; otherwise a record with
\* whatever keys the JSON had, of which "solution" is the one the debug
\* pipeline reads.
ExtractedInfos ==
  {NullInfo} \cup
  {[present |-> TRUE, solution |-> s, debug_solution |-> ""] :
      s \in {"", "solution-in-json"}}

\* The response text generateSolution / debugSolution return as data.
SolutionText == "solution-text"
DebugText == "debug-text"

\* ---- AnthropicClient called directly ----

MaxSegments == 2    \* content blocks in one response
MaxTextLen == 3     \* tokens in one response text

\* A text is a sequence of characters; a content block has a type and a text.
BlockTexts == {<<>>, <<"a">>, <<"b">>}
Blocks == [type : {"text", "image"}, text : BlockTexts]
Contents == UNION {[1..n -> Blocks] : n \in 0..MaxSegments}

NEWLINE == "<newline>"

\* Array.prototype.join
RECURSIVE Join(_, _)
Join(texts, sep) ==
  IF Len(texts) = 0 THEN <<>>
  ELSE IF Len(texts) = 1 THEN texts[1]
  ELSE texts[1] \o sep \o Join(Tail(texts), sep)

\* content.filter(item => item.type === 'text').map(item => item.text)
TextsOf(content) ==
  LET kept == SelectSeq(content, LAMBDA item : item.type = "text")
  IN  [i \in 1..Len(kept) |-> kept[i].text]

\* generateResponse's return value for response.data.content
ResponseText(content) ==
  IF Len(content) > 0 THEN Join(TextsOf(content), <<NEWLINE>>) ELSE <<>>

HttpStatuses == {400, 401, 429, 500}
ErrorBodies == {"err-a", "err-b"}

\* Every way the request of a direct call can settle
ClientResponses ==
  {[OkResponse EXCEPT !.content = c] : c \in Contents}
  \cup {Settled("http", st, b) : st \in HttpStatuses, b \in ErrorBodies}
  \cup {Settled("network", NoStatus, ""), Settled("cancel", NoStatus, "")}

NoError == Err("")

\* generateResponse with this.apiKey = key and a request that settles as o:
\* whether the request was made, and the text returned or the error thrown
GenerateResponse(key, o) ==
  IF key = NullKey
    THEN [requested |-> FALSE, ok |-> FALSE, text |-> <<>>,
          error |-> Err("Anthropic API key not configured")]
  ELSE IF o.type = "ok"
    THEN [requested |-> TRUE, ok |-> TRUE, text |-> ResponseText(o.content),
          error |-> NoError]
  ELSE [requested |-> TRUE, ok |-> FALSE, text |-> <<>>,
        error |-> GenerateResponseError(o)]

\* A response text seen by processImages is a sequence of tokens: the two
\* fence marks, the braces, the JSON literal null, and other text.
FENCE_OPEN == "<fence-open>"    \* the text ```json followed by a newline
FENCE_CLOSE == "<fence-close>"  \* a newline followed by ```
Tokens == {FENCE_OPEN, FENCE_CLOSE, "{", "}", "null", "x"}
ResponseTexts == UNION {[1..n -> Tokens] : n \in 0..MaxTextLen}

Min(S) == CHOOSE x \in S : \A y \in S : x <= y
Max(S) == CHOOSE x \in S : \A y \in S : x >= y

NoMatch == [found |-> FALSE, whole |-> <<>>, group |-> <<>>]

\* responseText.match(/```json\n([\s\S]*?)\n```/): leftmost start, lazy end
FencedMatch(t) ==
  LET starts == {i \in DOMAIN t :
                   /\ t[i] = FENCE_OPEN
                   /\ \E j \in DOMAIN t : j > i /\ t[j] = FENCE_CLOSE}
  IN  IF starts = {} THEN NoMatch
      ELSE LET i == Min(starts)
               j == Min({k \in DOMAIN t : k > i /\ t[k] = FENCE_CLOSE})
           IN  [found |-> TRUE, whole |-> SubSeq(t, i, j),
                group |-> SubSeq(t, i + 1, j - 1)]

\* responseText.match(/\{[\s\S]*\}/): leftmost start, greedy end, no group
BracesMatch(t) ==
  LET starts == {i \in DOMAIN t :
                   /\ t[i] = "{"
                   /\ \E j \in DOMAIN t : j > i /\ t[j] = "}"}
  IN  IF starts = {} THEN NoMatch
      ELSE LET i == Min(starts)
               j == Max({k \in DOMAIN t : k > i /\ t[k] = "}"})
           IN  [found |-> TRUE, whole |-> SubSeq(t, i, j), group |-> <<>>]

\* jsonMatch ? jsonMatch[1] || jsonMatch[0] : responseText
JsonStr(t) ==
  LET m == IF FencedMatch(t).found THEN FencedMatch(t) ELSE BracesMatch(t)
  IN  IF m.found THEN (IF m.group # <<>> THEN m.group ELSE m.whole) ELSE t

\* JSON.parse on a token sequence: the values it can give, or a SyntaxError
JsonParse(j) ==
  IF j = <<"null">> THEN [ok |-> TRUE, value |-> "null"]
  ELSE IF j = <<"{", "}">> THEN [ok |-> TRUE, value |-> "object"]
  ELSE [ok |-> FALSE, value |-> "SyntaxError"]

\* What processImages returns for the response text t: the parsed value, or
\* the record built from the raw text when JSON.parse throws
ParseProblem(t) ==
  LET parsed == JsonParse(JsonStr(t))
  IN  IF parsed.ok
        THEN [kind |-> parsed.value, description |-> <<>>,
              raw_response |-> <<>>]
        ELSE [kind |-> "fallback", description |-> t, raw_response |-> t]

NoParse == [kind |-> "none", description |-> <<>>, raw_response |-> <<>>]

\* A caller invokes generateResponse and the request settles as o
GenerateResponseCall(o) ==
  /\ lastCall = NoCall
  /\ lastCall' = [op |-> "generateResponse", response |-> o, text |-> <<>>,
                  result |-> GenerateResponse(apiKey, o),
                  parsed |-> NoParse]
  /\ UNCHANGED <<shared, isInitialized, processEnv, apiKey, solved, runs,
                 events, lastCmd>>

\* A caller invokes processImages and generateResponse returns the text t
ProcessImagesCall(t) ==
  /\ lastCall = NoCall
  /\ lastCall' =
       [op |-> "processImages", response |-> OkResponse, text |-> t,
        result |-> GenerateResponse(apiKey, OkResponse),
        parsed |-> IF IsConfigured THEN ParseProblem(t) ELSE NoParse]
  /\ UNCHANGED <<shared, isInitialized, processEnv, apiKey, solved, runs,
                 events, lastCmd>>

\* The caller has its result
CallReturned ==
  /\ lastCall # NoCall
  /\ lastCall' = NoCall
  /\ UNCHANGED <<shared, isInitialized, processEnv, apiKey, solved, runs,
                 events, lastCmd>>

\* The environment of the process changes after the client was constructed
SetEnv(name, v) ==
  /\ processEnv[name] # v
  /\ processEnv' = [processEnv EXCEPT ![name] = v]
  /\ UNCHANGED <<shared, isInitialized, apiKey, lastCall, solved, runs,
                 events, lastCmd>>

\* ---- ProcessingHelper ----

MAX_RETRIES == 0

\* The runs in progress: the record of a returned run is dropped.
Live == [q \in Runs |-> IF runs[q].pc = "done" THEN IdleRun ELSE runs[q]]

LiveEvents == [q \in Runs |-> IF runs[q].pc = "done" THEN <<>> ELSE events[q]]

\* A step of no run
NoRun == runs' = Live /\ events' = LiveEvents

\* A send that puts the new events in front of the earlier ones
EmitFirst(r, seq) == events' = [LiveEvents EXCEPT ![r] = seq \o @]

Emit(r, seq) == events' = [LiveEvents EXCEPT ![r] = @ \o seq]

\* The controller field c once run r has returned
Released(c, r) == IF c = r THEN Stale ELSE c

\* getCredits: 0 when the readiness poll gives up, else window.__CREDITS__
GetCredits == IF isInitialized THEN credits ELSE 0

\* The gate with its bound off by one
OutOfCreditsBelowZero(c) == c < 0

OutOfCredits(c) == c < 1

\* No invocation occupies slot r
Returned(r) == runs[r].pc \in {"idle", "done"}

\* The entry point returns: its locals are gone.
Return(r) ==
  runs' = [Live EXCEPT ![r].pc = "done", ![r].hwin = FALSE, ![r].imgs = <<>>,
                       ![r].pinfo = NullInfo, ![r].cred = 0]

\* The entry point returns and leaves the controller fields as they are.
Finish(r) ==
  /\ Return(r)
  /\ currentProcessingAbortController' =
       Released(currentProcessingAbortController, r)
  /\ currentExtraProcessingAbortController' =
       Released(currentExtraProcessingAbortController, r)

\* ipc "process-screenshots" / "process-extra-screenshots": the entry point
\* up to its first await (getCredits).
Invoke(r, k, w) ==
  /\ lastCmd' = NoCmd
  /\ Returned(r)
  /\ \A q \in Runs : q < r => ~Returned(q)
  /\ runs' = [Live EXCEPT ![r] = [IdleRun EXCEPT
                 !.kind = k, !.pc = IF w THEN "credits" ELSE "done"]]
  /\ events' = [LiveEvents EXCEPT ![r] = <<>>]
  /\ UNCHANGED <<shared, env>>

\* An invocation while no other is in progress
InvokeAlone(r, k, w) ==
  /\ \A q \in Runs : Returned(q)
  /\ Invoke(r, k, w)

\* The queue gate with its test never true
NoScreenshotsNever(q) == Len(q) < 0

\* The queue gate of an entry point: nothing to process
NoScreenshots(q) == Len(q) = 0

\* getCredits resolved: the credit gate, the view branch, the queue gate and
\* the new AbortController, up to the await of the image reads.
CheckCredits(r) ==
  /\ lastCmd' = NoCmd
  /\ runs[r].pc = "credits"
  /\ UNCHANGED <<view, problemInfo, hasDebugged, credits, screenshotQueue,
                 extraScreenshotQueue, env>>
  /\ IF OutOfCredits(GetCredits)
       THEN /\ Emit(r, <<E(OUT_OF_CREDITS)>>)
            /\ Finish(r)
     ELSE IF runs[r].kind = "PS" /\ view = "queue"
       THEN IF NoScreenshots(screenshotQueue)
              THEN /\ Emit(r, <<E(INITIAL_START), E(NO_SCREENSHOTS)>>)
                   /\ Finish(r)
              ELSE /\ Emit(r, <<E(INITIAL_START)>>)
                   /\ currentProcessingAbortController' = r
                   /\ runs' = [Live EXCEPT ![r].pipe = "solve",
                                           ![r].imgs = screenshotQueue,
                                           ![r].pc = "load"]
                   /\ UNCHANGED currentExtraProcessingAbortController
     ELSE IF runs[r].kind = "PS"
       THEN IF NoScreenshots(extraScreenshotQueue)
              THEN /\ Emit(r, <<E(NO_SCREENSHOTS)>>)
                   /\ Finish(r)
              ELSE /\ Emit(r, <<E(DEBUG_START)>>)
                   /\ currentExtraProcessingAbortController' = r
                   /\ runs' = [Live EXCEPT
                        ![r].pipe = "debug",
                        ![r].imgs = screenshotQueue \o extraScreenshotQueue,
                        ![r].pc = "load"]
                   /\ UNCHANGED currentProcessingAbortController
     ELSE IF view # "solutions"
       THEN /\ Emit(r, <<E(DEBUG_START)>>)
            /\ Finish(r)
     ELSE IF NoScreenshots(extraScreenshotQueue)
       THEN /\ Emit(r, <<E(DEBUG_START), E(NO_SCREENSHOTS)>>)
            /\ Finish(r)
     ELSE /\ Emit(r, <<E(DEBUG_START)>>)
          /\ currentExtraProcessingAbortController' = r
          /\ runs' = [Live EXCEPT ![r].pipe = "debug",
                                  ![r].imgs = extraScreenshotQueue,
                                  ![r].pc = "load"]
          /\ UNCHANGED currentProcessingAbortController

\* The caller of the Solve helper reporting nothing for a failed result
SolveFailedSilently(r, sent, msg) ==
  /\ Emit(r, sent)
  /\ Finish(r)

\* processScreenshots, queue branch, with a failed result or a caught
\* exception: `sent` is what the helpers sent before returning.
SolveFailed(r, sent, msg) ==
  /\ Emit(r, sent \o <<Ev(INITIAL_SOLUTION_ERROR, msg, 0)>>)
  /\ Finish(r)

\* The caller of processExtraScreenshotsHelper with a failed result or a
\* caught exception; processScreenshots also runs its finally block.
DebugFailed(r, sent, msg) ==
  /\ Emit(r, sent \o <<Ev(DEBUG_ERROR, msg, 0)>>)
  /\ Return(r)
  /\ currentProcessingAbortController' =
       Released(currentProcessingAbortController, r)
  /\ currentExtraProcessingAbortController' =
       IF runs[r].kind = "PS" THEN NullController
       ELSE Released(currentExtraProcessingAbortController, r)

\* The two nested catch blocks of processScreenshotsHelper.
HelperCatch(error, retryCount) ==
  IF IsCancel(error)
    THEN [retry |-> FALSE, error |-> "Processing was canceled by the user."]
  ELSE IF IsCancel(Err(error.message)) \/ retryCount >= MAX_RETRIES
    THEN [retry |-> FALSE, error |-> error.message]
  ELSE [retry |-> TRUE, error |-> error.message]

\* The two nested catch blocks of processExtraScreenshotsHelper: the result
\* and what the outer catch sends.
DebugHelperCatch(error, retryCount, w) ==
  IF IsCancel(error)
    THEN [retry |-> FALSE, sent |-> <<>>,
          error |-> "Debug processing was canceled by the user."]
  ELSE IF IsCancel(Err(error.message)) \/ retryCount >= MAX_RETRIES
    THEN [retry |-> FALSE,
          sent |-> IF w THEN <<Ev(DEBUG_ERROR, error.message, 0)>>
                   ELSE <<>>,
          error |-> error.message]
  ELSE [retry |-> TRUE, sent |-> <<>>, error |-> error.message]

\* A new iteration of a helper's while loop, up to its await of getLanguage.
LoopAgain(r, retryCount, w) ==
  /\ runs' = [Live EXCEPT ![r].pc = "lang", ![r].hwin = w,
                          ![r].retryCount = retryCount]
  /\ UNCHANGED <<currentProcessingAbortController,
                 currentExtraProcessingAbortController>>

\* The image reads (Promise.all) settled; on success the helper starts.
LoadDone(r, ok, w) ==
  /\ lastCmd' = NoCmd
  /\ runs[r].pc = "load"
  /\ UNCHANGED <<view, problemInfo, hasDebugged, credits, screenshotQueue,
                 extraScreenshotQueue, env>>
  /\ IF ok
       THEN /\ LoopAgain(r, 0, w)
            /\ Emit(r, <<>>)
     ELSE IF runs[r].pipe = "solve"
       THEN SolveFailed(r, <<>>, "read error")
     ELSE DebugFailed(r, <<>>, "read error")

\* The solution text the debug pipeline finds in ProblemInfo ("" when none).
ExistingSolution(info) == info.solution

\* A gateway call is issued: the run waits at pc for it to settle.  The
\* count of its calls of this kind stops at MaxRepeats + 1.
Call(r, pc, pinfo) ==
  /\ runs' = [Live EXCEPT ![r].pc = pc, ![r].pinfo = pinfo,
                          ![r].nCalls[pc] =
                             IF @ > MaxRepeats THEN @ ELSE @ + 1]
  /\ Emit(r, <<>>)
  /\ UNCHANGED <<currentProcessingAbortController,
                 currentExtraProcessingAbortController>>

\* getLanguage resolved inside a helper: the configuration check and the
\* first gateway call (processImages -> generateResponse -> axios.post).
LangDone(r, w) ==
  /\ lastCmd' = NoCmd
  /\ runs[r].pc = "lang"
  /\ UNCHANGED <<view, problemInfo, hasDebugged, credits, screenshotQueue,
                 extraScreenshotQueue, env>>
  /\ IF runs[r].pipe = "solve"
       THEN IF ~IsConfigured
              THEN SolveFailed(r, <<>>, NOT_CONFIGURED)
              ELSE Call(r, "extract", runs[r].pinfo)
     ELSE IF ~problemInfo.present
       THEN LET c == DebugHelperCatch(Err("No problem info available"),
                                      runs[r].retryCount, w)
            IN  DebugFailed(r, c.sent, c.error)
     ELSE IF ExistingSolution(problemInfo) = ""
       THEN LET c == DebugHelperCatch(
                       Err("No existing solution found to debug"),
                       runs[r].retryCount, w)
            IN  DebugFailed(r, c.sent, c.error)
     ELSE IF ~IsConfigured
       THEN DebugFailed(r, <<>>, NOT_CONFIGURED)
     ELSE Call(r, "errextract", problemInfo)

\* The extraction call of the Solve pipeline settled.
ExtractReturn(r, o, info, w) ==
  /\ lastCmd' = NoCmd
  /\ runs[r].pc = "extract"
  /\ o \in AxiosOutcomes(runs[r].aborted)
  /\ UNCHANGED <<view, hasDebugged, credits, screenshotQueue,
                 extraScreenshotQueue, env>>
  /\ IF o.type = "ok"
       THEN /\ info \in ExtractedInfos
            /\ problemInfo' = info
            /\ IF runs[r].hwin
                 THEN /\ Emit(r, <<E(PROBLEM_EXTRACTED)>>)
                      /\ runs' = [Live EXCEPT ![r].pc = "sol_lang",
                                              ![r].pinfo = info]
                      /\ UNCHANGED <<currentProcessingAbortController,
                                     currentExtraProcessingAbortController>>
                 ELSE /\ LoopAgain(r, runs[r].retryCount, w)
                      /\ Emit(r, <<>>)
       ELSE /\ info = NullInfo
            /\ UNCHANGED problemInfo
            /\ LET c == HelperCatch(GenerateResponseError(o),
                                    runs[r].retryCount)
               IN  IF c.retry
                     THEN /\ LoopAgain(r, runs[r].retryCount + 1, w)
                          /\ Emit(r, <<>>)
                     ELSE SolveFailed(r, <<>>, c.error)

\* generateSolutionsHelper's catch: the result and what it sends.
SolutionsCatch(error, w) ==
  IF IsCancel(error)
    THEN [sent |-> <<>>, error |-> "Solution generation was canceled."]
    ELSE [sent |-> IF w
                     THEN <<Ev(INITIAL_SOLUTION_ERROR, error.message, 0)>>
                     ELSE <<>>,
          error |-> error.message]

\* generateSolutionsHelper returned a failure: processScreenshotsHelper
\* throws it and its catch blocks decide.
SolutionsFailed(r, sent, msg, w) ==
  LET c == HelperCatch(Err(msg), runs[r].retryCount)
  IN  IF c.retry
        THEN /\ LoopAgain(r, runs[r].retryCount + 1, w)
             /\ Emit(r, sent)
        ELSE SolveFailed(r, sent, c.error)

\* getLanguage resolved inside generateSolutionsHelper: the second call.
SolLangDone(r, w) ==
  /\ lastCmd' = NoCmd
  /\ runs[r].pc = "sol_lang"
  /\ UNCHANGED <<view, problemInfo, hasDebugged, credits, screenshotQueue,
                 extraScreenshotQueue, env>>
  /\ IF ~runs[r].pinfo.present
       THEN LET c == SolutionsCatch(Err("No problem info available"), w)
            IN  SolutionsFailed(r, c.sent, c.error, w)
     ELSE IF ~IsConfigured
       THEN SolutionsFailed(r, <<>>, NOT_CONFIGURED, w)
     ELSE Call(r, "solve", runs[r].pinfo)

\* The test of a result with its answer fixed
SuccessAlways(o) == TRUE

\* result.success of a helper whose gateway call settled as o
Success(o) == o.type = "ok"

\* The view set with the wrong name
SolutionsViewQueue == "queue"

\* The view processScreenshots sets after a successful result
SolutionsView == "solutions"

\* The solve call settled.
SolveReturn(r, o, w) ==
  /\ lastCmd' = NoCmd
  /\ runs[r].pc = "solve"
  /\ o \in AxiosOutcomes(runs[r].aborted)
  /\ UNCHANGED <<problemInfo, hasDebugged, credits, screenshotQueue,
                 isInitialized, client>>
  /\ solved' = (solved \/ o.type = "ok")
  /\ IF Success(o)
       THEN /\ extraScreenshotQueue' = <<>>
            /\ Emit(r, <<Ev(SOLUTION_SUCCESS, SolutionText, 0)>>)
            /\ view' = SolutionsView
            /\ IF w
                 THEN /\ runs' = [Live EXCEPT ![r].pc = "dec"]
                      /\ UNCHANGED <<currentProcessingAbortController,
                                     currentExtraProcessingAbortController>>
                 ELSE Finish(r)
       ELSE /\ UNCHANGED <<view, extraScreenshotQueue>>
            /\ LET c == SolutionsCatch(GenerateResponseError(o), w)
               IN  SolutionsFailed(r, c.sent, c.error, w)

\* A gateway call of the Debug pipeline failed: the helper's catch blocks,
\* then its caller.
DebugCallFailed(r, o, w) ==
  LET c == DebugHelperCatch(GenerateResponseError(o), runs[r].retryCount, w)
  IN  IF c.retry
        THEN /\ LoopAgain(r, runs[r].retryCount + 1, w)
             /\ Emit(r, <<>>)
        ELSE DebugFailed(r, c.sent, c.error)

\* The error-extraction step marking the session as debugged
ErrExtractReturnMarking(r, o, w) ==
  /\ lastCmd' = NoCmd
  /\ runs[r].pc = "errextract"
  /\ o \in AxiosOutcomes(runs[r].aborted)
  /\ hasDebugged' = TRUE
  /\ UNCHANGED <<view, problemInfo, credits, screenshotQueue,
                 extraScreenshotQueue, env>>
  /\ IF o.type = "ok"
       THEN Call(r, "debug", runs[r].pinfo)
       ELSE DebugCallFailed(r, o, w)

\* The error-extraction call of the Debug pipeline settled; on data the
\* debug call is issued at once.
ErrExtractReturn(r, o, w) ==
  /\ lastCmd' = NoCmd
  /\ runs[r].pc = "errextract"
  /\ o \in AxiosOutcomes(runs[r].aborted)
  /\ UNCHANGED <<view, problemInfo, hasDebugged, credits, screenshotQueue,
                 extraScreenshotQueue, env>>
  /\ IF o.type = "ok"
       THEN Call(r, "debug", runs[r].pinfo)
       ELSE DebugCallFailed(r, o, w)

\* The debug call settled.
DebugReturn(r, o, w) ==
  /\ lastCmd' = NoCmd
  /\ runs[r].pc = "debug"
  /\ o \in AxiosOutcomes(runs[r].aborted)
  /\ UNCHANGED <<credits, screenshotQueue, extraScreenshotQueue, env>>
  /\ IF o.type = "ok"
       THEN /\ problemInfo' =
                 [runs[r].pinfo EXCEPT !.debug_solution = DebugText]
            /\ hasDebugged' = TRUE
            /\ IF runs[r].kind = "PES"
                 THEN /\ Emit(r, IF runs[r].hwin THEN <<E(DEBUG_SUCCESS)>>
                                 ELSE <<>>)
                      /\ view' = "debug"
                      /\ runs' = [Live EXCEPT ![r].pc = "dec"]
                      /\ UNCHANGED <<currentProcessingAbortController,
                                     currentExtraProcessingAbortController>>
                 ELSE /\ Emit(r, (IF runs[r].hwin THEN <<E(DEBUG_SUCCESS)>>
                                  ELSE <<>>) \o <<E(DEBUG_SUCCESS)>>)
                      /\ Return(r)
                      /\ currentProcessingAbortController' =
                           Released(currentProcessingAbortController, r)
                      /\ currentExtraProcessingAbortController' =
                           NullController
                      /\ UNCHANGED view
       ELSE /\ UNCHANGED <<view, problemInfo, hasDebugged>>
            /\ DebugCallFailed(r, o, w)

\* The test of decrement-credits with its answer fixed
HasCreditsAlways(c) == TRUE

\* decrement-credits: there is a credit to take
HasCredits(c) == c > 0

\* ipc "decrement-credits", reached through window.api.decrementCredits():
\* the handler up to the read of window.__CREDITS__.
DecRead(r, w) ==
  /\ lastCmd' = NoCmd
  /\ runs[r].pc = "dec"
  /\ IF w /\ HasCredits(credits)
       THEN /\ runs' = [Live EXCEPT ![r].cred = credits,
                                    ![r].pc = "dec_write"]
            /\ UNCHANGED <<currentProcessingAbortController,
                           currentExtraProcessingAbortController>>
       ELSE Finish(r)
  /\ Emit(r, <<>>)
  /\ UNCHANGED <<view, problemInfo, hasDebugged, credits, screenshotQueue,
                 extraScreenshotQueue, env>>

\* The handler's write of the decremented value and its credits-updated.
DecWrite(r) ==
  /\ lastCmd' = NoCmd
  /\ runs[r].pc = "dec_write"
  /\ credits' = runs[r].cred - 1
  /\ Emit(r, <<Ev(CREDITS_UPDATED, "", runs[r].cred - 1)>>)
  /\ Finish(r)
  /\ UNCHANGED <<view, problemInfo, hasDebugged, screenshotQueue,
                 extraScreenshotQueue, env>>

\* run r's AbortController is one of those cancelOngoingRequests aborts
Aborts(r) ==
  /\ ~Returned(r)
  /\ \/ currentProcessingAbortController = r
     \/ currentExtraProcessingAbortController = r

CancelOngoingRequests(w) ==
  LET wasCancelled ==
        \/ currentProcessingAbortController # NullController
        \/ currentExtraProcessingAbortController # NullController
  IN  /\ runs' = [r \in Runs |->
                    IF Aborts(r) THEN [Live[r] EXCEPT !.aborted = TRUE]
                    ELSE Live[r]]
      /\ events' = LiveEvents
      /\ currentProcessingAbortController' = NullController
      /\ currentExtraProcessingAbortController' = NullController
      /\ hasDebugged' = FALSE
      /\ problemInfo' = NullInfo
      /\ lastCmd' = IF wasCancelled /\ w
                                THEN <<E(NO_SCREENSHOTS)>> ELSE <<>>
      /\ UNCHANGED <<view, credits, screenshotQueue, extraScreenshotQueue,
                     env>>

\* deps.clearQueues(): both queues and the stored ProblemInfo
ClearQueues ==
  /\ screenshotQueue' = <<>>
  /\ extraScreenshotQueue' = <<>>
  /\ problemInfo' = NullInfo

\* The reset handler without its setView
ResetKeepingView(w) ==
  /\ ClearQueues
  /\ lastCmd' = IF w THEN <<E(RESET_VIEW)>> ELSE <<>>
  /\ NoRun
  /\ UNCHANGED <<view, hasDebugged, credits,
                 currentProcessingAbortController,
                 currentExtraProcessingAbortController, env>>

\* ipc "reset"
Reset(w) ==
  /\ ClearQueues
  /\ view' = "queue"
  /\ lastCmd' = IF w THEN <<E(RESET_VIEW)>> ELSE <<>>
  /\ NoRun
  /\ UNCHANGED <<hasDebugged, credits, currentProcessingAbortController,
                 currentExtraProcessingAbortController, env>>

\* ipc "set-initial-credits"
SetInitialCredits(n, w) ==
  /\ credits' = IF w THEN n ELSE credits
  /\ lastCmd' = IF w THEN <<Ev(CREDITS_UPDATED, "", n)>> ELSE <<>>
  /\ NoRun
  /\ UNCHANGED <<view, problemInfo, hasDebugged, screenshotQueue,
                 extraScreenshotQueue, currentProcessingAbortController,
                 currentExtraProcessingAbortController, env>>

\* A screenshot is named by the queue it was captured into and its position
\* there: appending to a full queue drops the oldest entry and renumbers.
Shots(q, n) == [i \in 1..n |-> [queue |-> q, ordinal |-> i]]

Push(q, name) == Shots(name, IF Len(q) >= QueueCap THEN QueueCap ELSE Len(q) + 1)

\* capture(): into the queue the view selects
TakeScreenshot ==
  /\ lastCmd' = NoCmd
  /\ IF view = "queue"
       THEN /\ screenshotQueue' = Push(screenshotQueue, "main")
            /\ UNCHANGED extraScreenshotQueue
       ELSE /\ extraScreenshotQueue' = Push(extraScreenshotQueue, "extra")
            /\ UNCHANGED screenshotQueue
  /\ NoRun
  /\ UNCHANGED <<view, problemInfo, hasDebugged, credits,
                 currentProcessingAbortController,
                 currentExtraProcessingAbortController, env>>

GET_SCREENSHOTS == "get-screenshots"

\* What the get-screenshots handler returns
Reply(success, previews) ==
  [name |-> GET_SCREENSHOTS, msg |-> "", n |-> 0, success |-> success,
   previews |-> previews]

\* ipc "get-screenshots": the queue the view selects, with its previews;
\* ok is whether every getImagePreview succeeded
GetScreenshots(ok) ==
  /\ lastCmd' = <<IF ~ok THEN Reply(FALSE, <<>>)
                  ELSE IF view = "queue" THEN Reply(TRUE, screenshotQueue)
                  ELSE Reply(TRUE, extraScreenshotQueue)>>
  /\ NoRun
  /\ UNCHANGED <<shared, env>>

\* ---- the environment ----

\* The renderer sets window.__IS_INITIALIZED__
RendererReady ==
  /\ lastCmd' = NoCmd
  /\ ~isInitialized
  /\ isInitialized' = TRUE
  /\ NoRun
  /\ UNCHANGED <<shared, client, solved>>

\* A step of an invocation in progress
RunStep ==
  \/ \E r \in Runs : CheckCredits(r)
  \/ \E r \in Runs, ok \in BOOLEAN, w \in BOOLEAN : LoadDone(r, ok, w)
  \/ \E r \in Runs, w \in BOOLEAN : LangDone(r, w)
  \/ \E r \in Runs, o \in Outcomes :
        \E info \in ExtractedInfos :
          \E w \in BOOLEAN : ExtractReturn(r, o, info, w)
  \/ \E r \in Runs, w \in BOOLEAN : SolLangDone(r, w)
  \/ \E r \in Runs, o \in Outcomes, w \in BOOLEAN : SolveReturn(r, o, w)
  \/ \E r \in Runs, o \in Outcomes, w \in BOOLEAN :
        ErrExtractReturn(r, o, w)
  \/ \E r \in Runs, o \in Outcomes, w \in BOOLEAN : DebugReturn(r, o, w)
  \/ \E r \in Runs, w \in BOOLEAN : DecRead(r, w)
  \/ \E r \in Runs : DecWrite(r)

\* What happens in every session: cancel shortcut, captures, renderer start
Other ==
  \/ \E w \in BOOLEAN : CancelOngoingRequests(w)
  \/ TakeScreenshot
  \/ RendererReady

\* The application with every command, its pipelines invoked one at a time
Next ==
  \/ \E r \in Runs, k \in {"PS", "PES"}, w \in BOOLEAN : InvokeAlone(r, k, w)
  \/ RunStep
  \/ Other
  \/ \E n \in 0..MaxCredits, w \in BOOLEAN : SetInitialCredits(n, w)
  \/ \E w \in BOOLEAN : Reset(w)
  \/ \E ok \in BOOLEAN : GetScreenshots(ok)

Spec == Init /\ [][Next]_vars

\* Pipelines invoked while others are in progress, with no reset and no new
\* credit grant in between
NextOverlap ==
  \/ \E r \in Runs, k \in {"PS", "PES"}, w \in BOOLEAN : Invoke(r, k, w)
  \/ RunStep
  \/ Other

SpecOverlap == Init /\ [][NextOverlap]_vars

\* The continuation of invocation r: what runs when the promise it awaits
\* (a renderer query, the image reads, a gateway call) settles
Continue(r) ==
  \/ CheckCredits(r)
  \/ \E ok \in BOOLEAN, w \in BOOLEAN : LoadDone(r, ok, w)
  \/ \E w \in BOOLEAN : LangDone(r, w)
  \/ \E o \in Outcomes, info \in ExtractedInfos, w \in BOOLEAN :
        ExtractReturn(r, o, info, w)
  \/ \E w \in BOOLEAN : SolLangDone(r, w)
  \/ \E o \in Outcomes, w \in BOOLEAN : SolveReturn(r, o, w)
  \/ \E o \in Outcomes, w \in BOOLEAN : ErrExtractReturn(r, o, w)
  \/ \E o \in Outcomes, w \in BOOLEAN : DebugReturn(r, o, w)
  \/ \E w \in BOOLEAN : DecRead(r, w)
  \/ DecWrite(r)

\* The application when every promise a run awaits settles and the run's
\* continuation is then scheduled
SpecLive == Init /\ [][Next]_vars /\ \A r \in Runs : WF_vars(Continue(r))

\* The client constructed in any environment and called directly
InitClient ==
  /\ view = "queue"
  /\ problemInfo = NullInfo
  /\ hasDebugged = FALSE
  /\ credits = 0
  /\ isInitialized = FALSE
  /\ processEnv \in [ANTHROPIC_API_KEY : EnvValues, anthropic_key : EnvValues]
  /\ apiKey = LoadApiKey(processEnv)
  /\ lastCall = NoCall
  /\ solved = FALSE
  /\ screenshotQueue = <<>>
  /\ extraScreenshotQueue = <<>>
  /\ currentProcessingAbortController = NullController
  /\ currentExtraProcessingAbortController = NullController
  /\ runs = [r \in Runs |-> IdleRun]
  /\ events = [r \in Runs |-> <<>>]
  /\ lastCmd = NoCmd

NextClient ==
  \/ \E o \in ClientResponses : GenerateResponseCall(o)
  \/ \E t \in ResponseTexts : ProcessImagesCall(t)
  \/ CallReturned
  \/ \E name \in {"ANTHROPIC_API_KEY", "anthropic_key"}, v \in EnvValues :
        SetEnv(name, v)

SpecClient == InitClient /\ [][NextClient]_vars

\* ---- ProcessingHelper: the readiness poll, query by query ----

maxAttempts == 50

\* window.__LANGUAGE__ is a string, or is not set
Undefined == "<undefined>"
LanguageValues == {"python", "java", Undefined}

\* What getCredits / getLanguage return when they have no value
Default(op) == IF op = "getCredits" THEN 0 ELSE "python"

\* The loop test of waitForInitialization letting one more attempt through
KeepsPollingOneMore(attempts) == attempts <= maxAttempts

\* while (attempts < maxAttempts)
KeepsPolling(attempts) == attempts < maxAttempts

\* A call of getCredits or getLanguage: where it is, the attempts counter,
\* how many times it has read the flag, and how it returned what
Polling(op, pc, attempts, reads, how, result) ==
  [op |-> op, pc |-> pc, attempts |-> attempts, reads |-> reads,
   how |-> how, result |-> result]

PollFrame ==
  /\ NoRun
  /\ lastCmd' = NoCmd
  /\ UNCHANGED <<shared, isInitialized, processEnv, apiKey, solved>>

\* getCredits / getLanguage is called; w is whether there is a main window.
\* waitForInitialization starts with attempts = 0 and its first query.
PollCall(op, w) ==
  /\ lastCall = NoCall
  /\ lastCall' =
       IF ~w THEN Polling(op, "returned", 0, 0, "no-window", Default(op))
       ELSE IF KeepsPolling(0) THEN Polling(op, "poll", 0, 0, "", Default(op))
       ELSE Polling(op, "returned", 0, 0, "gave-up", Default(op))
  /\ PollFrame

\* The query of window.__IS_INITIALIZED__ settled; ok is whether it resolved
PollRead(ok) ==
  /\ lastCall # NoCall
  /\ lastCall.pc = "poll"
  /\ lastCall' =
       IF ~ok
         THEN [lastCall EXCEPT !.reads = @ + 1, !.pc = "returned",
                               !.how = "threw"]
       ELSE IF isInitialized
         THEN [lastCall EXCEPT !.reads = @ + 1, !.pc = "value"]
       ELSE [lastCall EXCEPT !.reads = @ + 1, !.pc = "sleep"]
  /\ PollFrame

\* The 100 ms timer fired: attempts++, then the loop test
PollWake ==
  /\ lastCall # NoCall
  /\ lastCall.pc = "sleep"
  /\ lastCall' =
       IF KeepsPolling(lastCall.attempts + 1)
         THEN [lastCall EXCEPT !.attempts = @ + 1, !.pc = "poll"]
         ELSE [lastCall EXCEPT !.attempts = @ + 1, !.pc = "returned",
                               !.how = "gave-up"]
  /\ PollFrame

\* The query of window.__CREDITS__ / window.__LANGUAGE__ settled
ValueRead(ok, language) ==
  /\ lastCall # NoCall
  /\ lastCall.pc = "value"
  /\ lastCall' =
       IF ~ok THEN [lastCall EXCEPT !.pc = "returned", !.how = "threw"]
       ELSE IF lastCall.op = "getCredits"
         THEN [lastCall EXCEPT !.pc = "returned", !.how = "value",
                               !.result = credits]
       ELSE IF language = Undefined
         THEN [lastCall EXCEPT !.pc = "returned", !.how = "not-a-string"]
       ELSE [lastCall EXCEPT !.pc = "returned", !.how = "value",
                             !.result = language]
  /\ PollFrame

\* The caller has its value
PollReturned ==
  /\ lastCall # NoCall
  /\ lastCall.pc = "returned"
  /\ lastCall' = NoCall
  /\ PollFrame

\* The helper's two queries called one at a time, next to invocations of
\* the two entry points up to their gates
NextPoll ==
  \/ \E op \in {"getCredits", "getLanguage"}, w \in BOOLEAN : PollCall(op, w)
  \/ \E ok \in BOOLEAN : PollRead(ok)
  \/ PollWake
  \/ \E ok \in BOOLEAN, language \in LanguageValues : ValueRead(ok, language)
  \/ PollReturned
  \/ RendererReady
  \/ \E n \in 0..MaxCredits, w \in BOOLEAN : SetInitialCredits(n, w)
  \/ \E r \in Runs, k \in {"PS", "PES"}, w \in BOOLEAN : InvokeAlone(r, k, w)
  \/ \E r \in Runs : CheckCredits(r)

SpecPoll == Init /\ [][NextPoll]_vars

\* ---- properties ----

\* Run r sent the event `name`
Sent(r, name) == \E i \in DOMAIN events[r] : events[r][i].name = name

\* How many times run r sent the event `name`
Count(r, name) == Cardinality({i \in DOMAIN events[r] : events[r][i].name = name})

\* Run r waits for a gateway call it issued
CallOutstanding(r) == runs[r].pc \in CallKinds

\* Run r takes a step
StepOf(r) == runs'[r].pc # runs[r].pc

\* Run r issues a gateway call in this step
CallIssued(r) == runs'[r].pc \in CallKinds /\ runs'[r].pc # runs[r].pc

\* C1: two process-screenshots invocations in view "queue": the second aborts
\* the request of the first before it starts its own, so at no time do two
\* runs of the Solve pipeline each wait for a gateway call that has not been
\* aborted.
C1_OneSolveCallOutstanding ==
  Cardinality({r \in Runs : /\ runs[r].pipe = "solve"
                            /\ CallOutstanding(r)
                            /\ ~runs[r].aborted}) <= 1

\* C2: a Solve run whose request cancelOngoingRequests aborted ends, when
\* its gateway call settles, without having sent solution-error.
C2_CancelledSolveSendsNoError ==
  [][\A r \in Runs :
       /\ runs[r].pipe = "solve"
       /\ CallOutstanding(r)
       /\ runs[r].aborted
       /\ runs'[r].pc = "done"
       => ~Sent(r, INITIAL_SOLUTION_ERROR)']_vars

\* C3: once cancelOngoingRequests has aborted the controller of a run, the
\* run does nothing more: it issues no gateway call, sends none of
\* problem-extracted, solution-success and debug-success, and its steps leave
\* ProblemInfo, the view, the credits and hasDebugged as they are.
C3_NoStepAfterCancel ==
  [][\A r \in Runs :
       runs[r].aborted /\ ~Returned(r) /\ StepOf(r)
       => /\ ~CallIssued(r)
          /\ \A name \in {PROBLEM_EXTRACTED, SOLUTION_SUCCESS, DEBUG_SUCCESS} :
               Count(r, name)' = Count(r, name)
          /\ UNCHANGED <<problemInfo, view, credits, hasDebugged>>]_vars

\* C4: a Solve run that sent solution-success lowers the credits by exactly
\* 1: when its decrement starts there is a credit to take, and the value it
\* is about to write is one below the credits as they then are.
C4_SuccessDecrementsByOne ==
  \A r \in Runs :
    runs[r].pipe = "solve" =>
      /\ runs[r].pc = "dec" => credits >= 1
      /\ runs[r].pc = "dec_write" => runs[r].cred - 1 = credits - 1

\* C5: in the state right after a run sends solution-success, the stored
\* ProblemInfo has the text of the solve call as its solution.
C5_SolutionMerged ==
  [][\A r \in Runs :
       ~Sent(r, SOLUTION_SUCCESS) /\ Sent(r, SOLUTION_SUCCESS)'
       => problemInfo'.solution = SolutionText]_vars

\* C6: a Solve run that returns when its extraction call or its solve call
\* fails (for another reason than an abort) has sent solution-error exactly
\* once.
C6_OneSolutionError ==
  [][\A r \in Runs :
       /\ runs[r].pipe = "solve"
       /\ CallOutstanding(r)
       /\ ~runs[r].aborted
       /\ runs'[r].pc = "done"
       /\ ~Sent(r, SOLUTION_SUCCESS)'
       => Count(r, INITIAL_SOLUTION_ERROR)' = 1]_vars

\* C7: cancelOngoingRequests called while no pipeline run is in progress
\* sends nothing and leaves ProblemInfo, hasDebugged, the view, the credits
\* and the queues as they are.
C7_CancelIdleIsNoOp ==
  [][(\A r \in Runs : Returned(r))
       /\ (\E w \in BOOLEAN : CancelOngoingRequests(w))
       => /\ lastCmd' = <<>>
          /\ UNCHANGED <<problemInfo, hasDebugged, view, credits,
                         screenshotQueue, extraScreenshotQueue>>]_vars

\* C8: a run issues a gateway call only while the credits are at least 1.
C8_NoCallWithoutCredits ==
  [][\A r \in Runs : CallIssued(r) => credits >= 1]_vars

\* C9: a run issues each of its gateway calls at most once.
C9_NoRetry ==
  \A r \in Runs : \A c \in CallKinds : runs[r].nCalls[c] <= 1

\* C10: when the credit gate of a run reads credits below 1, the run sends
\* out-of-credits and nothing else and returns, it has issued no gateway
\* call, and the view, ProblemInfo, both queues, the credits and both
\* AbortController fields are as before.
C10_OutOfCreditsStops ==
  [][\A r \in Runs :
       runs[r].pc = "credits" /\ StepOf(r) /\ credits < 1
       => /\ events'[r] = <<E(OUT_OF_CREDITS)>>
          /\ runs'[r].pc = "done"
          /\ \A c \in CallKinds : runs'[r].nCalls[c] = 0
          /\ UNCHANGED <<view, problemInfo, screenshotQueue,
                         extraScreenshotQueue, credits,
                         currentProcessingAbortController,
                         currentExtraProcessingAbortController>>]_vars

\* C10 happens: a run returned having sent only out-of-credits, while a
\* ProblemInfo and the controller of an earlier run were stored.
C10_Witness ==
  \E r \in Runs :
    /\ runs[r].pc = "done"
    /\ events[r] = <<E(OUT_OF_CREDITS)>>
    /\ credits < 1
    /\ problemInfo.present
    /\ currentProcessingAbortController # NullController

\* C11: process-screenshots whose credit gate reads at least 1 credit, in view
\* "queue" with an empty screenshot queue, sends processing-no-screenshots
\* and returns: it issues no gateway call, creates no AbortController, and
\* leaves the view, ProblemInfo and the credits as they are.
C11_EmptyQueueStops ==
  [][\A r \in Runs :
       /\ runs[r].pc = "credits" /\ StepOf(r)
       /\ runs[r].kind = "PS"
       /\ GetCredits >= 1
       /\ view = "queue"
       /\ screenshotQueue = <<>>
       => /\ Sent(r, NO_SCREENSHOTS)'
          /\ runs'[r].pc = "done"
          /\ \A c \in CallKinds : runs'[r].nCalls[c] = 0
          /\ UNCHANGED <<currentProcessingAbortController,
                         currentExtraProcessingAbortController,
                         view, problemInfo, credits>>]_vars

\* C11 happens: with a credit left and nothing captured, a run returned
\* having sent processing-no-screenshots after initial-start.
C11_Witness ==
  \E r \in Runs :
    /\ runs[r].pc = "done" /\ runs[r].kind = "PS"
    /\ events[r] = <<E(INITIAL_START), E(NO_SCREENSHOTS)>>
    /\ credits >= 1 /\ isInitialized
    /\ view = "queue" /\ screenshotQueue = <<>>

\* C12: process-extra-screenshots whose credit gate passes while the view is
\* not "solutions" issues no gateway call, changes no state, and returns
\* having sent a terminal event (debug-error or processing-no-screenshots).
C12_DebugOutsideSolutionsReports ==
  [][\A r \in Runs :
       /\ runs[r].pc = "credits" /\ StepOf(r)
       /\ runs[r].kind = "PES"
       /\ GetCredits >= 1
       /\ view # "solutions"
       => /\ runs'[r].pc = "done"
          /\ \A c \in CallKinds : runs'[r].nCalls[c] = 0
          /\ UNCHANGED <<view, problemInfo, hasDebugged, credits,
                         screenshotQueue, extraScreenshotQueue>>
          /\ Sent(r, DEBUG_ERROR)' \/ Sent(r, NO_SCREENSHOTS)']_vars

\* The messages of the failures a Solve run can meet at its gateway calls
\* and at the checks before them
SolveFailureMessages ==
  {GenerateResponseError(o).message : o \in AxiosOutcomes(FALSE) \ {OkResponse}}
  \cup {NOT_CONFIGURED, "No problem info available"}

\* C13: a Solve run that fails without having been aborted (missing API key,
\* failing extraction call, failing solve call) changes neither the view nor
\* the credits in any of its steps, and returns having sent, last, a
\* solution-error that carries the message of the failure.
C13_SolveFailureFrame ==
  [][\A r \in Runs :
       /\ runs[r].pipe = "solve" /\ StepOf(r) /\ ~runs[r].aborted
       /\ runs[r].pc \in {"lang", "extract", "sol_lang", "solve"}
       /\ ~Sent(r, SOLUTION_SUCCESS)'
       => /\ UNCHANGED <<view, credits>>
          /\ runs'[r].pc = "done" =>
               /\ events'[r] # <<>>
               /\ events'[r][Len(events'[r])].name = INITIAL_SOLUTION_ERROR
               /\ events'[r][Len(events'[r])].msg \in SolveFailureMessages
               /\ ~IsConfigured => events'[r][Len(events'[r])].msg = NOT_CONFIGURED]_vars

\* C13 happens: a run whose solve call failed returned with solution-error
\* while the view is still "queue" and the credit is still there.
C13_Witness ==
  \E r \in Runs :
    /\ runs[r].pc = "done" /\ runs[r].pipe = "solve" /\ ~runs[r].aborted
    /\ runs[r].nCalls["solve"] = 1
    /\ Sent(r, INITIAL_SOLUTION_ERROR) /\ ~Sent(r, SOLUTION_SUCCESS)
    /\ view = "queue" /\ credits >= 1

\* C14: when a Solve run returns without solution-success after its
\* extraction call succeeded, the stored ProblemInfo is not the extraction
\* result of that run held without a solution.
C14_NoHalfUpdatedProblemInfo ==
  [][\A r \in Runs :
       /\ runs[r].pipe = "solve"
       /\ runs[r].pc \in {"sol_lang", "solve"}
       /\ runs'[r].pc = "done"
       /\ ~Sent(r, SOLUTION_SUCCESS)'
       => ~(/\ runs[r].pinfo.present
            /\ runs[r].pinfo.solution = ""
            /\ problemInfo' = runs[r].pinfo)]_vars

\* C15: the step in which a Solve run sends solution-success leaves the
\* extra screenshot queue empty and the view "solutions", and no later step
\* of the run changes the view, so the run returns in view "solutions".
C15_SuccessClearsExtraQueue ==
  [][\A r \in Runs :
       /\ runs[r].pipe = "solve" /\ ~Returned(r) /\ StepOf(r)
       => /\ ~Sent(r, SOLUTION_SUCCESS) /\ Sent(r, SOLUTION_SUCCESS)'
               => extraScreenshotQueue' = <<>> /\ view' = "solutions"
          /\ Sent(r, SOLUTION_SUCCESS) => UNCHANGED view]_vars

\* C15 happens: a run that sent solution-success has returned after its
\* decrement, the view is "solutions" and the extra queue is empty.
C15_Witness ==
  \E r \in Runs :
    /\ runs[r].pc = "done" /\ runs[r].pipe = "solve"
    /\ Sent(r, SOLUTION_SUCCESS) /\ Sent(r, CREDITS_UPDATED)
    /\ view = "solutions" /\ extraScreenshotQueue = <<>>

\* C16: the step in which a Debug run sends debug-success leaves the view
\* "debug" and hasDebugged true and starts the decrement of the credits,
\* for either entry point.
C16_DebugSuccessEffects ==
  [][\A r \in Runs :
       /\ runs[r].pipe = "debug"
       /\ ~Sent(r, DEBUG_SUCCESS) /\ Sent(r, DEBUG_SUCCESS)'
       => /\ view' = "debug"
          /\ hasDebugged' = TRUE
          /\ runs'[r].pc = "dec"]_vars

\* How many terminal events of the Debug pipeline run r has sent
Terminals(r) ==
  Count(r, DEBUG_SUCCESS) + Count(r, DEBUG_ERROR) + Count(r, NO_SCREENSHOTS)

\* C17: a run that sent debug-start has sent, when it returns, exactly one
\* of debug-success, debug-error and processing-no-screenshots.
C17_OneDebugTerminal ==
  \A r \in Runs :
    runs[r].pc = "done" /\ Sent(r, DEBUG_START) => Terminals(r) = 1

\* C18: starting a Debug run aborts the request of a Debug run in progress:
\* at no time do two runs of the Debug pipeline each wait for a gateway call
\* that has not been aborted, and the controller stored in
\* currentExtraProcessingAbortController is that of the one that waits.
C18_OneDebugCallOutstanding ==
  LET inFlight == {r \in Runs : /\ runs[r].pipe = "debug"
                                /\ CallOutstanding(r)
                                /\ ~runs[r].aborted}
  IN  /\ Cardinality(inFlight) <= 1
      /\ \A r \in inFlight : currentExtraProcessingAbortController = r

\* A step of run r on a path of the Debug pipeline that does not succeed
DebugFailureStep(r) ==
  \/ /\ runs[r].pipe = "debug" /\ StepOf(r)
     /\ runs[r].pc \in {"load", "lang", "errextract"}
  \/ \E o \in Outcomes \ {OkResponse}, w \in BOOLEAN :
       DebugReturn(r, o, w)

\* C19: a Debug run that fails (no ProblemInfo, no solution in it, no API
\* key, unreadable image, failing error-extraction or debug call) leaves the
\* view, the credits, ProblemInfo and hasDebugged unchanged in every step.
C19_DebugFailureFrame ==
  [][\A r \in Runs :
       DebugFailureStep(r)
       => UNCHANGED <<view, credits, problemInfo, hasDebugged>>]_vars

\* C19 happens: a Debug run whose debug call failed has returned with
\* debug-error; the ProblemInfo with its solution, the view and the credit
\* are still there.
C19_Witness ==
  \E r \in Runs :
    /\ runs[r].pc = "done" /\ runs[r].pipe = "debug" /\ ~runs[r].aborted
    /\ runs[r].nCalls["debug"] = 1
    /\ Sent(r, DEBUG_ERROR) /\ ~Sent(r, DEBUG_SUCCESS)
    /\ problemInfo.present /\ problemInfo.debug_solution = ""
    /\ view = "solutions" /\ credits >= 1 /\ ~hasDebugged

\* Run r waits for a gateway call whose signal has not been aborted
InFlight(r) == CallOutstanding(r) /\ ~runs[r].aborted

\* C20: cancelOngoingRequests called while a gateway call is in flight
\* aborts every run whose controller is stored in one of the two fields,
\* leaves ProblemInfo absent, hasDebugged false and both fields null, and
\* sends processing-no-screenshots once (to the main window, if there is
\* one).
C20_CancelInFlight ==
  [][(\E q \in Runs : InFlight(q))
       /\ (\E w \in BOOLEAN : CancelOngoingRequests(w))
       => /\ \A r \in Runs :
               /\ ~Returned(r)
               /\ \/ currentProcessingAbortController = r
                  \/ currentExtraProcessingAbortController = r
               => runs'[r].aborted
          /\ problemInfo' = NullInfo
          /\ hasDebugged' = FALSE
          /\ currentProcessingAbortController' = NullController
          /\ currentExtraProcessingAbortController' = NullController
          /\ lastCmd' \in {<<>>, <<E(NO_SCREENSHOTS)>>}
          /\ CancelOngoingRequests(TRUE) =>
               lastCmd' = <<E(NO_SCREENSHOTS)>>]_vars

\* C21: the reset command, in whatever state it is handled (a pipeline run
\* in progress included), leaves both queues empty, ProblemInfo absent and
\* the view "queue", and sends reset-view once (to the main window, if
\* there is one).
C21_ResetYieldsCleanQueueView ==
  [][(\E w \in BOOLEAN : Reset(w))
       => /\ screenshotQueue' = <<>>
          /\ extraScreenshotQueue' = <<>>
          /\ problemInfo' = NullInfo
          /\ view' = "queue"
          /\ lastCmd' \in {<<>>, <<E(RESET_VIEW)>>}
          /\ Reset(TRUE) => lastCmd' = <<E(RESET_VIEW)>>]_vars

\* C21 happens: reset was just handled while a Debug run, started in view
\* "solutions", waits for its gateway call.
C21_Witness ==
  /\ lastCmd = <<E(RESET_VIEW)>>
  /\ \E r \in Runs : /\ runs[r].pipe = "debug" /\ CallOutstanding(r)
                      /\ ~runs[r].aborted
  /\ view = "queue" /\ problemInfo = NullInfo
  /\ screenshotQueue = <<>> /\ extraScreenshotQueue = <<>>

\* C22: a Debug run, whichever entry point starts it, hands its helper the
\* images of the screenshot queue followed by those of the extra queue.
C22_DebugImagesCombined ==
  [][\A r \in Runs :
       runs[r].pc = "credits" /\ runs'[r].pipe = "debug"
       => runs'[r].imgs = screenshotQueue \o extraScreenshotQueue]_vars

\* C23: the view is "debug" only in executions in which a Solve run has
\* succeeded before (which is what sets the view to "solutions").
C23_DebugOnlyAfterSolve ==
  /\ view = "debug" => solved
  /\ view = "solutions" => solved

\* C23 happens: the view is "debug".
C23_Witness ==
  /\ view = "debug" /\ solved /\ hasDebugged
  /\ problemInfo.debug_solution = DebugText

\* C24: the credits are never negative.
C24_CreditsNonNegative == credits >= 0

\* C24 happens: two decrements and a credit grant later, no credit is left.
C24_Witness ==
  /\ credits = 0 /\ solved /\ hasDebugged
  /\ \E r \in Runs : runs[r].pc = "done" /\ Sent(r, CREDITS_UPDATED)

\* The last event run r has sent once this step is taken
LastSent(r) == events'[r][Len(events'[r])]

\* C25: without an API key no run calls the gateway: a run that reaches the
\* configuration check of its helper stops there, issues no call, changes
\* neither the view nor the credits, and returns having sent, last,
\* solution-error or debug-error with the configuration message.
C25_NoKeyNoCall ==
  [][apiKey = NullKey =>
       /\ \A r \in Runs : \A c \in CallKinds : runs'[r].nCalls[c] = 0
       /\ \A r \in Runs :
            runs[r].pc \in {"lang", "sol_lang"} /\ StepOf(r)
            => /\ runs'[r].pc = "done"
               /\ events'[r] # <<>>
               /\ LastSent(r).name \in {INITIAL_SOLUTION_ERROR, DEBUG_ERROR}
               /\ LastSent(r).msg = NOT_CONFIGURED
               /\ UNCHANGED <<view, credits>>]_vars

\* C25 happens: with no key in the environment a Solve run, with a credit
\* and a screenshot, returned with the configuration message.
C25_Witness ==
  \E r \in Runs :
    /\ apiKey = NullKey /\ processEnv.ANTHROPIC_API_KEY = Unset
    /\ runs[r].pc = "done" /\ runs[r].pipe = "solve"
    /\ events[r] = <<E(INITIAL_START),
                     Ev(INITIAL_SOLUTION_ERROR, NOT_CONFIGURED, 0)>>
    /\ view = "queue" /\ credits >= 1

\* C26: a Solve run that has sent solution-success has sent initial-start,
\* problem-extracted and solution-success once each, in that order, as its
\* first three events; it issued its solve call once, after an extraction
\* call, after it had sent problem-extracted; and the step that sent
\* problem-extracted stored the extraction result as ProblemInfo.
C26_SolveEventOrder ==
  [][\A r \in Runs :
       /\ runs'[r].pipe = "solve" /\ Sent(r, SOLUTION_SUCCESS)'
            => /\ Len(events'[r]) >= 3
               /\ events'[r][1].name = INITIAL_START
               /\ events'[r][2].name = PROBLEM_EXTRACTED
               /\ events'[r][3].name = SOLUTION_SUCCESS
               /\ \A name \in {INITIAL_START, PROBLEM_EXTRACTED,
                                 SOLUTION_SUCCESS} : Count(r, name)' = 1
               /\ runs'[r].nCalls["solve"] = 1
       /\ CallIssued(r) /\ runs'[r].pc = "solve"
            => /\ runs[r].nCalls["extract"] >= 1
               /\ Sent(r, PROBLEM_EXTRACTED)
               /\ runs[r].pinfo.present
       /\ CallIssued(r) /\ runs'[r].pc = "extract"
            => runs[r].nCalls["solve"] = 0
       /\ ~Sent(r, PROBLEM_EXTRACTED) /\ Sent(r, PROBLEM_EXTRACTED)'
            => problemInfo' = runs'[r].pinfo]_vars

\* C26 happens: a run returned after initial-start, problem-extracted,
\* solution-success and its decrement, with one call of each kind.
C26_Witness ==
  \E r \in Runs :
    /\ runs[r].pc = "done" /\ runs[r].pipe = "solve"
    /\ Len(events[r]) = 4
    /\ events[r][3] = Ev(SOLUTION_SUCCESS, SolutionText, 0)
    /\ events[r][4].name = CREDITS_UPDATED
    /\ runs[r].nCalls["extract"] = 1 /\ runs[r].nCalls["solve"] = 1

\* C27: processImages returns a record for every response text, and when
\* JSON.parse fails the record's description is the response text.
C27_ParseAlwaysGivesRecord ==
  lastCall.op = "processImages" /\ lastCall.result.ok
  => /\ lastCall.parsed.kind \in {"object", "fallback"}
     /\ ~JsonParse(JsonStr(lastCall.text)).ok
          => lastCall.parsed.description = lastCall.text

\* The plain concatenation of the text segments of a response
Concatenation(content) == Join(TextsOf(content), <<>>)

\* C28: a call whose request got a failing HTTP response throws an error
\* whose kind is given by the status (401, 429, any other), which carries
\* the status and the body of the response, and which is not the error of
\* a cancelled request.
C28_HttpErrorCarriesStatusAndBody ==
  /\ lastCall.op = "generateResponse"
  /\ lastCall.result.requested
  /\ lastCall.response.type = "http"
  => LET error == lastCall.result.error
         status == lastCall.response.status
     IN  /\ ~lastCall.result.ok
         /\ error.message = (IF status = 401 THEN "Invalid API key"
                              ELSE IF status = 429 THEN "Rate limit exceeded"
                              ELSE "API error")
         /\ error.status = status
         /\ error.body = lastCall.response.body
         /\ error # GenerateResponseError(Settled("cancel", NoStatus, ""))

\* C29: a successful call returns the concatenation, in order, of the text
\* segments of the response with nothing between them, and the empty text
\* when the response has no segments.
C29_TextIsConcatenation ==
  lastCall.op = "generateResponse" /\ lastCall.result.ok
  => lastCall.result.text = Concatenation(lastCall.response.content)

\* C30: the key the client holds is the one found at construction, the
\* value of ANTHROPIC_API_KEY if it is non-empty, otherwise that of
\* anthropic_key if it is non-empty, otherwise none, and then the client is
\* not configured; later changes of the environment do not change it, and
\* it is the one every call uses.
C30_FirstNonEmptyKeyWins ==
  /\ LET primary == processEnv.ANTHROPIC_API_KEY
         legacy == processEnv.anthropic_key
     IN  /\ primary \notin {Unset, ""} => apiKey = primary
         /\ primary \in {Unset, ""} /\ legacy \notin {Unset, ""}
              => apiKey = legacy
         /\ primary \in {Unset, ""} /\ legacy \in {Unset, ""}
              => apiKey = NullKey /\ ~IsConfigured
  /\ [][/\ apiKey' = apiKey
        /\ lastCall'.op = "generateResponse"
             => lastCall'.result.requested = (apiKey # NullKey)]_vars

\* C30 happens: both names held different keys at construction, the client
\* took that of ANTHROPIC_API_KEY, kept it when the variable changed, and
\* made a request with it.
C30_Witness ==
  /\ apiKey = "sk-ant-1"
  /\ processEnv = [ANTHROPIC_API_KEY |-> "", anthropic_key |-> "sk-ant-2"]
  /\ lastCall.op = "generateResponse" /\ lastCall.result.requested

\* C31: a Debug run started in view "solutions" while the ProblemInfo of the
\* successful Solve run is still stored (no reset and no cancel since) finds
\* an existing solution when it comes to the precondition, and issues its
\* error-extraction call.
C31_DebugAfterSolveIssuesCall ==
  [][\A r \in Runs :
       /\ runs[r].pipe = "debug" /\ runs[r].pc = "lang" /\ StepOf(r)
       /\ solved /\ view = "solutions" /\ problemInfo.present
       => runs'[r].pc = "errextract" /\ CallIssued(r)]_vars

\* C32: when cancelOngoingRequests returns, every run that was waiting for
\* a gateway call has had the signal of that call aborted.
C32_CancelReachesEveryRequest ==
  [][(\E w \in BOOLEAN : CancelOngoingRequests(w))
       => \A r \in Runs : CallOutstanding(r) => runs'[r].aborted]_vars

\* C33: a decrement-credits invocation that writes while there is a credit
\* takes exactly one off the credits as they are when it writes, whatever
\* other invocations did since it read them, and sends credits-updated with
\* the value it wrote; so k invocations starting from c >= k credits leave
\* c - k.
C33_DecrementIsAtomic ==
  [][\A r \in Runs :
       runs[r].pc = "dec_write" /\ StepOf(r) /\ credits >= 1
       => /\ credits' = credits - 1
          /\ LastSent(r) = Ev(CREDITS_UPDATED, "", credits')]_vars

\* C34: whenever the view is "solutions" or "debug" a ProblemInfo is stored.
C34_ViewImpliesProblemInfo ==
  view \in {"solutions", "debug"} => problemInfo.present

\* C35: every invocation of processScreenshots and of processExtraScreenshots
\* returns, when every promise it awaits settles.
C35_EveryRunReturns == \A r \in Runs : ~Returned(r) ~> Returned(r)

\* The selection made by a step: an invocation of processScreenshots with a
\* credit runs the Solve pipeline on the main queue if and only if the view
\* is "queue" (and that queue is not empty), and otherwise the Debug pipeline
\* if and only if the extra queue is not empty; get-screenshots returns the
\* main queue if the view is "queue" and the extra queue otherwise.
SelectsByView ==
  /\ \A r \in Runs :
       /\ runs[r].kind = "PS" /\ runs[r].pc = "credits" /\ StepOf(r)
       /\ ~OutOfCredits(GetCredits)
       => /\ runs'[r].pipe = "solve"
               <=> view = "queue" /\ screenshotQueue # <<>>
          /\ runs'[r].pipe = "solve" => runs'[r].imgs = screenshotQueue
          /\ runs'[r].pipe = "debug"
               <=> view # "queue" /\ extraScreenshotQueue # <<>>
  /\ lastCmd' # <<>> /\ lastCmd'[1].name = GET_SCREENSHOTS
       /\ lastCmd'[1].success
       => lastCmd'[1].previews = IF view = "queue" THEN screenshotQueue
                                ELSE extraScreenshotQueue

InPoll == lastCall # NoCall /\ lastCall.op \in {"getCredits", "getLanguage"}

\* C37: waitForInitialization reads the readiness flag at most 50 times, and
\* has read it 50 times when it gives up; getCredits and getLanguage that
\* return while the flag is still false return 0 and "python"; that 0 is
\* below the credit gate, and an invocation whose credit gate is reached
\* while the flag is false sends out-of-credits, nothing else, and returns
\* without a gateway call.
C37_PollBoundedThenDefaults ==
  [][/\ InPoll' =>
          /\ lastCall'.reads <= 50
          /\ lastCall'.how = "gave-up" => lastCall'.reads = 50
          /\ lastCall'.pc = "returned" /\ ~isInitialized'
               => /\ lastCall'.result =
                       (IF lastCall'.op = "getCredits" THEN 0 ELSE "python")
                  /\ lastCall'.op = "getCredits"
                       => /\ lastCall'.result < 1
                          /\ lastCall'.result = GetCredits'
     /\ \A r \in Runs :
          runs[r].pc = "credits" /\ StepOf(r) /\ ~isInitialized
          => /\ events'[r] = <<E(OUT_OF_CREDITS)>>
             /\ runs'[r].pc = "done"
             /\ \A c \in CallKinds : runs'[r].nCalls[c] = 0]_vars

\* C37 happens: with credits to use and the flag false, getCredits gave up
\* after 50 reads and returned 0, and an invocation returned out of credits.
C37_Witness ==
  /\ InPoll /\ lastCall.op = "getCredits" /\ lastCall.pc = "returned"
  /\ lastCall.how = "gave-up" /\ lastCall.reads = 50 /\ lastCall.result = 0
  /\ ~isInitialized /\ credits >= 1
  /\ \E r \in Runs : runs[r].pc = "done" /\ events[r] = <<E(OUT_OF_CREDITS)>>

====
